---- MODULE Spec2Model ----
(***************************************************************************)
(* Incident alert service: the Lambda entry point (lambda/src/app.py), its *)
(* SMS ingestion pipeline, and the CRUD endpoints (lambda/src/endpoints.py)*)
(* over one DynamoDB table keyed by incident_id.                           *)
(*                                                                         *)
(* Lambda runs one invocation per request and several at once. A step of   *)
(* the model is one invocation up to and including its next table call:    *)
(* the pipeline, list, get and create make one call and are one step;      *)
(* update_status and delete_incident make two (get_item, then the write)   *)
(* and are two steps, with other invocations' steps in between.            *)
(*                                                                         *)
(* Python / JSON values are tagged tuples: <<"str", s>>, <<"null">>,       *)
(* <<"bool", b>>, <<"num", n>>, <<"float", name>> (nan, inf and -inf),      *)
(* <<"obj", f>> (f a function from keys to values), <<"arr", seq>>.        *)
(* A dict is a function whose DOMAIN is its key                            *)
(* set. The payload of a str is a TLA+ string, or a sequence where the     *)
(* code looks inside the text: tokens (JSON text), fields (form body),     *)
(* segments (path), characters (a str that is indexed).                    *)
(***************************************************************************)
EXTENDS Integers, Sequences, FiniteSets, Bags, TLC

VARIABLES store, last, inflight

vars == <<store, last, inflight>>

(* ---------------------------- bounds ----------------------------------- *)
\* clock readings datetime.utcnow() can return
MaxTime == 1
\* update/delete invocations that are between their get_item and their write
MaxInflight == 2

(* ---------------------------- values ----------------------------------- *)
S(x) == <<"str", x>>
Null == <<"null">>
Bool(b) == <<"bool", b>>
Num(n) == <<"num", n>>
\* the floats json.loads makes of NaN, Infinity and -Infinity, under the name
\* the text gives them
Float(x) == <<"float", x>>
Obj(f) == <<"obj", f>>
Arr(q) == <<"arr", q>>
EmptyDict == [k \in {} |-> Null]
IsStr(v) == v[1] = "str"
IsObj(v) == v[1] = "obj"
IsArr(v) == v[1] = "arr"

\* Python truthiness (`not x`)
Falsy(v) ==
  CASE v[1] = "null" -> TRUE
    [] v[1] = "str" -> Len(v[2]) = 0
    [] v[1] = "obj" -> DOMAIN v[2] = {}
    [] v[1] = "arr" -> Len(v[2]) = 0
    [] v[1] = "bool" -> ~v[2]
    [] v[1] = "num" -> v[2] = 0
    [] v[1] = "float" -> FALSE

\* dict.get(k, default)
Get(d, k, default) == IF k \in DOMAIN d THEN d[k] ELSE default

\* outcomes of a step that can raise
Ok(x) == <<"ok", x>>
Raise(e) == <<"raise", e>>
IsOk(r) == r[1] = "ok"

Ids == {"r1", "r2"}
Times == 1..MaxTime
IsoStrings == <<"2025-03-01T10:00:01", "2025-03-01T10:00:02", "2025-03-01T10:00:03",
                "2025-03-01T10:00:04">>
\* datetime.utcnow().isoformat()
isoformat(t) == IsoStrings[t]

Attrs == {"incident_id", "incident_location", "incident_type", "priority",
          "timestamp", "status", "source", "original_message"}

(* ------------------------- the Record Store ---------------------------- *)
\* table.get_item(Key={"incident_id": id}): a response dict that holds "Item"
\* only when the key exists
GetItem(st, id) == IF id \in DOMAIN st THEN [Item |-> Obj(st[id])] ELSE EmptyDict

\* table.put_item(Item=item): unconditional upsert under the item's key
PutItem(st, item) ==
  LET id == item["incident_id"][2]
  IN [k \in DOMAIN st \cup {id} |-> IF k = id THEN item ELSE st[k]]

\* table.delete_item(Key=...): no error when the key is absent
DeleteItem(st, id) == [k \in DOMAIN st \ {id} |-> st[k]]

\* table.update_item(Key=..., UpdateExpression="SET #s = :status"): sets the one
\* attribute; DynamoDB creates the item (key + that attribute) if it is absent
UpdateItem(st, id, status) ==
  LET old == IF id \in DOMAIN st THEN st[id] ELSE [incident_id |-> S(id)]
      new == [a \in DOMAIN old \cup {"status"} |-> IF a = "status" THEN S(status) ELSE old[a]]
  IN [k \in DOMAIN st \cup {id} |-> IF k = id THEN new ELSE st[k]]

\* the order DynamoDB compares two timestamp strings in (byte order)
StrLe(a, b) ==
  LET ix(s) == CHOOSE i \in 1..Len(IsoStrings) : IsoStrings[i] = s
  IN ix(a) <= ix(b)

\* table.scan(FilterExpression=Attr('timestamp').between/gte/lte): lo and hi are
\* the limits, Null for none. A condition on an attribute the item lacks, or
\* that is no string, is false. The order of the scan is not modelled: the
\* items come as a set.
Scan(st, lo, hi) ==
  LET keeps(item) ==
        \/ lo = Null /\ hi = Null
        \/ /\ "timestamp" \in DOMAIN item
           /\ IsStr(item["timestamp"])
           /\ lo # Null => StrLe(lo[2], item["timestamp"][2])
           /\ hi # Null => StrLe(item["timestamp"][2], hi[2])
  IN [Items |-> <<"items", {Obj(st[k]) : k \in {k \in DOMAIN st : keeps(st[k])}}>>]

(* ------------------- urllib.parse.parse_qs (form bodies) ---------------- *)
\* A form body is <<"str", fields>>: the text already cut at '&' and '=' into
\* <<name, raw value>> fields; the values are still percent/plus encoded.
unquote_plus(v) ==
  CASE v = "Fire+at+5th" -> "Fire at 5th"
    [] v = "%2B15550100" -> "+15550100"
    [] OTHER -> v

\* parse_qs(qs): {} for None or ''; blank values are dropped
\* (keep_blank_values=False); each name maps to the list of its values in order
parse_qs(qs) ==
  IF qs = Null \/ qs[2] = <<>> THEN EmptyDict
  ELSE LET fields == qs[2]
           kept == SelectSeq(fields, LAMBDA f : unquote_plus(f[2]) # "")
           names == {kept[i][1] : i \in 1..Len(kept)}
           vals(n) == SelectSeq(kept, LAMBDA f : f[1] = n)
       IN [n \in names |-> Arr([i \in 1..Len(vals(n)) |-> S(unquote_plus(vals(n)[i][2]))])]

\* params.get(name, [''])[0]
FirstParam(params, name) == Get(params, name, Arr(<<S("")>>))[2][1]

(* ----------------------------- json.loads ------------------------------- *)
\* JSON text is <<"str", tokens>>, the tokens being whitespace, punctuation,
\* string literals (already unescaped), null, true, false, integers, and bare
\* words (prose, markdown fences, and the constants NaN, Infinity and
\* -Infinity that Python's decoder takes). Numbers with a fraction are not
\* written.
Ws == <<"ws">>
P(c) == <<"p", c>>
Lit(x) == <<"s", x>>
NullTok == <<"nulltok">>
TrueTok == <<"truetok">>
FalseTok == <<"falsetok">>
NumTok(n) == <<"numtok", n>>
Word(w) == <<"word", w>>
\* the bare words that are values for Python's json (parse_constant)
FloatWords == {"NaN", "Infinity", "-Infinity"}

RECURSIVE LStrip(_)
LStrip(q) == IF q # <<>> /\ Head(q) = Ws THEN LStrip(Tail(q)) ELSE q
RECURSIVE RStrip(_)
RStrip(q) == IF q # <<>> /\ q[Len(q)] = Ws THEN RStrip(SubSeq(q, 1, Len(q) - 1)) ELSE q
\* str.strip()
strip(text) == S(RStrip(LStrip(text[2])))

\* The decoder, over the tokens without the whitespace. A parse of the value
\* that starts at position i is <<"ok", value, position after it>>.
Parsed(v, i) == <<"ok", v, i>>

RECURSIVE ParseValue(_, _)
RECURSIVE ParseMembers(_, _, _)
RECURSIVE ParseElements(_, _, _)

\* the members of an object from the key at position i on; acc holds the
\* members read so far, and a repeated key keeps its last value
ParseMembers(t, i, acc) ==
  IF i + 1 > Len(t) \/ t[i][1] # "s" \/ t[i + 1] # P(":") THEN Raise("JSONDecodeError")
  ELSE LET v == ParseValue(t, i + 2)
           k == t[i][2]
           acc2 == [x \in DOMAIN acc \cup {k} |-> IF x = k THEN v[2] ELSE acc[x]]
       IN IF ~IsOk(v) THEN v
          ELSE IF v[3] > Len(t) THEN Raise("JSONDecodeError")
          ELSE IF t[v[3]] = P("}") THEN Parsed(Obj(acc2), v[3] + 1)
          ELSE IF t[v[3]] = P(",") THEN ParseMembers(t, v[3] + 1, acc2)
          ELSE Raise("JSONDecodeError")

\* the elements of an array from the value at position i on
ParseElements(t, i, acc) ==
  LET v == ParseValue(t, i)
  IN IF ~IsOk(v) THEN v
     ELSE IF v[3] > Len(t) THEN Raise("JSONDecodeError")
     ELSE IF t[v[3]] = P("]") THEN Parsed(Arr(Append(acc, v[2])), v[3] + 1)
     ELSE IF t[v[3]] = P(",") THEN ParseElements(t, v[3] + 1, Append(acc, v[2]))
     ELSE Raise("JSONDecodeError")

ParseValue(t, i) ==
  IF i > Len(t) THEN Raise("JSONDecodeError")
  ELSE CASE t[i][1] = "s" -> Parsed(S(t[i][2]), i + 1)
         [] t[i][1] = "nulltok" -> Parsed(Null, i + 1)
         [] t[i][1] = "truetok" -> Parsed(Bool(TRUE), i + 1)
         [] t[i][1] = "falsetok" -> Parsed(Bool(FALSE), i + 1)
         [] t[i][1] = "numtok" -> Parsed(Num(t[i][2]), i + 1)
         [] t[i][1] = "word" /\ t[i][2] \in FloatWords -> Parsed(Float(t[i][2]), i + 1)
         [] t[i] = P("{") ->
              IF i + 1 <= Len(t) /\ t[i + 1] = P("}") THEN Parsed(Obj(EmptyDict), i + 2)
              ELSE ParseMembers(t, i + 1, EmptyDict)
         [] t[i] = P("[") ->
              IF i + 1 <= Len(t) /\ t[i + 1] = P("]") THEN Parsed(Arr(<<>>), i + 2)
              ELSE ParseElements(t, i + 1, <<>>)
         [] OTHER -> Raise("JSONDecodeError")

\* json.loads(text): one value, whitespace around the tokens insignificant,
\* nothing after the value
json_loads(text) ==
  LET t == SelectSeq(text[2], LAMBDA x : x # Ws)
      v == ParseValue(t, 1)
  IN IF ~IsOk(v) THEN v
     ELSE IF v[3] # Len(t) + 1 THEN Raise("JSONDecodeError")
     ELSE Ok(v[2])

\* v[k] for a str key k: only a dict takes one
SubscriptKey(v, k) ==
  IF ~IsObj(v) THEN Raise("TypeError")
  ELSE IF k \in DOMAIN v[2] THEN Ok(v[2][k]) ELSE Raise("KeyError")

\* v[i] for an int index i (0-based): an element of a list, a character of a
\* str; a dict from JSON has no int key; None, bool and int take no index
SubscriptIndex(v, i) ==
  CASE IsArr(v) -> IF i < Len(v[2]) THEN Ok(v[2][i + 1]) ELSE Raise("IndexError")
    [] IsStr(v) -> IF i < Len(v[2]) THEN Ok(S(<<v[2][i + 1]>>)) ELSE Raise("IndexError")
    [] IsObj(v) -> Raise("KeyError")
    [] OTHER -> Raise("TypeError")

\* response_body['content'][0]['text'].strip()
ModelText(response_body) ==
  LET c == SubscriptKey(response_body, "content")
      e == IF IsOk(c) THEN SubscriptIndex(c[2], 0) ELSE c
      t == IF IsOk(e) THEN SubscriptKey(e[2], "text") ELSE e
  IN IF ~IsOk(t) THEN t
     ELSE IF ~IsStr(t[2]) THEN Raise("AttributeError")
     ELSE Ok(strip(t[2]))

(* --------------------------- requests ----------------------------------- *)
\* An event is a dict; MkEvent leaves out the keys whose value is Absent.
Absent == <<"absent">>
MkEvent(m, p, rc, b, h, q) ==
  LET all == [httpMethod |-> m, path |-> p, requestContext |-> rc, body |-> b,
              headers |-> h, queryStringParameters |-> q]
  IN [k \in {k \in DOMAIN all : all[k] # Absent} |-> all[k]]

\* the API_NAME environment variable (the gateway's display name)
API_NAME == "incident-api"

\* a path is the sequence of its segments: "/post-sms" is <<"post-sms">>
PostSmsPath == S(<<"post-sms">>)
IncidentsPath == S(<<"v1", "incidents">>)
IncidentPath(id) == S(<<"v1", "incidents", id>>)
UpdateStatusPath == S(<<"v1", "update-status">>)
CreateIncidentPath == S(<<"v1", "create_incident">>)
\* FastAPI's own documentation routes
DocsPaths == {S(<<"docs">>), S(<<"redoc">>), S(<<"openapi.json">>)}

(* ------------------- lambda_handler: the dispatch ----------------------- *)
\* variant: the path alone decides
RouteOnPathOnly(event) ==
  IF Get(event, "path", Null) = PostSmsPath THEN "ingest" ELSE "asgi"

\* event.get('httpMethod') == 'POST' and event.get('path') == '/post-sms'
Route(event) ==
  IF Get(event, "httpMethod", Null) = S("POST") /\ Get(event, "path", Null) = PostSmsPath
  THEN "ingest" ELSE "asgi"

(* ------------------- lambda_handler: the ingestion pipeline ------------- *)
\* event.get('requestContext', {}).get('requestId')
RequestId(event) ==
  LET rc == Get(event, "requestContext", Obj(EmptyDict))
  IN IF IsObj(rc) THEN Ok(Get(rc[2], "requestId", Null)) ELSE Raise("AttributeError")

\* variant: `if request_id is None`
HasNoRequestIdIsNone(request_id) == request_id = Null

\* `if not request_id`
HasNoRequestId(request_id) == Falsy(request_id)

\* What a step of an invocation leaves behind: the store, the response (code 0
\* and body Null while there is none), how many times the pipeline called
\* invoke_model and put_item, whether an exception left lambda_handler, and
\* the table call the invocation still has to make (Done if none).
Done == <<>>
Outcome(st, code, body, oracleCalls, puts) ==
  [store |-> st, statusCode |-> code, body |-> body, oracleCalls |-> oracleCalls,
   puts |-> puts, raised |-> FALSE, next |-> Done]

MissingRequestId(st) ==
  Outcome(st, 400, Obj([error |-> S("requestId missing in event")]), 0, 0)

\* variant: no except clause, the exception leaves lambda_handler
FailedUncaught(st, cause, oracleCalls, puts) ==
  [store |-> st, statusCode |-> 0, body |-> Null, oracleCalls |-> oracleCalls,
   puts |-> puts, raised |-> TRUE, next |-> Done]

\* the except clause: the store is as the failing step left it; the message
\* is str(e), held as the name of what was raised
Failed(st, cause, oracleCalls, puts) ==
  Outcome(st, 500, Obj([error |-> S("Failed to process incident"), message |-> S(cause)]),
          oracleCalls, puts)

\* variant: the defaults of incident_type and priority exchanged
DefaultsSwapped(k) ==
  CASE k = "incident_location" -> S("Unknown")
    [] k = "incident_type" -> S("Medium")
    [] k = "priority" -> S("General")

\* the defaults of output.get(key, default)
Defaults(k) ==
  CASE k = "incident_location" -> S("Unknown")
    [] k = "incident_type" -> S("General")
    [] k = "priority" -> S("Medium")

\* the incident dict built from the request and the oracle's object
Incident(request_id, output, now, contactno, description) ==
  [incident_id |-> request_id,
   incident_location |-> Get(output, "incident_location", Defaults("incident_location")),
   incident_type |-> Get(output, "incident_type", Defaults("incident_type")),
   priority |-> Get(output, "priority", Defaults("priority")),
   timestamp |-> S(isoformat(now)),
   status |-> S("Open"),
   source |-> contactno,
   original_message |-> description]

\* The body of the POST /post-sms branch. `oracle` is what invoke_model does
\* (Raise, or Ok of the text response['body'].read() returns), `now` the clock
\* reading, `putRaises` whether table.put_item raises.
Ingest(st, event, oracle, now, putRaises) ==
  LET rid == RequestId(event)
      params == parse_qs(Get(event, "body", S(<<>>)))
      description == FirstParam(params, "Body")
      contactno == FirstParam(params, "From")
      response_body == json_loads(oracle[2])
      text == ModelText(response_body[2])
      output == json_loads(text[2])
      incident == Incident(rid[2], output[2][2], now, contactno, description)
  IN IF ~IsOk(rid) THEN Failed(st, rid[2], 0, 0)
     ELSE IF HasNoRequestId(rid[2]) THEN MissingRequestId(st)
     ELSE IF ~IsOk(oracle) THEN Failed(st, oracle[2], 1, 0)
     ELSE IF ~IsOk(response_body) THEN Failed(st, response_body[2], 1, 0)
     ELSE IF ~IsOk(text) THEN Failed(st, text[2], 1, 0)
     ELSE IF ~IsOk(output) THEN Failed(st, "Model response is not valid JSON", 1, 0)
     ELSE IF ~IsObj(output[2]) THEN Failed(st, "AttributeError", 1, 0)
     ELSE IF putRaises THEN Failed(st, "ClientError", 1, 1)
     ELSE Outcome(PutItem(st, incident), 200,
                  Obj([message |-> S("Incident processed"), incident |-> Obj(incident)]),
                  1, 1)

(* ----------------------- models.py (pydantic) --------------------------- *)
IncidentRequired == {"priority", "source", "original_message"}
IncidentDefaults ==
  [incident_id |-> S(""), incident_location |-> S("Unknown"), incident_type |-> S("General"),
   timestamp |-> S(""), status |-> S("Open")]

\* Incident(**data): every field is a str; three are required, five default;
\* keys that are no field are ignored. A value that is no str is rejected
\* (null, object, array; a number or bool too, as pydantic 2 does).
ValidateIncident(data) ==
  IF /\ IncidentRequired \subseteq DOMAIN data
     /\ \A a \in DOMAIN data \cap Attrs : IsStr(data[a])
  THEN Ok([a \in Attrs |-> IF a \in DOMAIN data THEN data[a] ELSE IncidentDefaults[a]])
  ELSE Raise("ValidationError")

\* UpdateStatus(**data): incident_id and status, both required strs
ValidateUpdateStatus(data) ==
  IF /\ {"incident_id", "status"} \subseteq DOMAIN data
     /\ IsStr(data["incident_id"]) /\ IsStr(data["status"])
  THEN Ok([incident_id |-> data["incident_id"], status |-> data["status"]])
  ELSE Raise("ValidationError")

(* ----------------------- endpoints.py ----------------------------------- *)
\* raise HTTPException(status_code=code, detail=detail)
HTTPException(code, detail) == <<"HTTPException", code, detail>>
IsHTTPException(r) == r[1] = "HTTPException"

\* the handler has made its get_item call and goes on to the table call `call`
Continue(call) == <<"continue", call>>
IsContinue(r) == r[1] = "continue"

\* What a handler leaves behind: the store and what it returned or raised.
Handled(st, result) == [store |-> st, result |-> result]

\* list_incidents: start_date and end_date are the query parameters (Null when
\* not given); `scanRaises` whether table.scan raises
list_incidents(st, start_date, end_date, scanRaises) ==
  LET lo == IF Falsy(start_date) THEN Null ELSE start_date
      hi == IF Falsy(end_date) THEN Null ELSE end_date
      response == Scan(st, lo, hi)
  IN IF scanRaises THEN Handled(st, HTTPException(500, "Unexpected error"))
     ELSE Handled(st, Ok(Get(response, "Items", <<"items", {}>>)))

\* get_incident: the 404 is raised inside the try block, and HTTPException is
\* an Exception, so the except clause turns it into a 500, as it does a
\* get_item that raises (`getRaises`)
get_incident(st, incident_id, getRaises) ==
  LET response == GetItem(st, incident_id)
      item == Get(response, "Item", Null)
      tried == IF getRaises THEN Raise("ClientError")
               ELSE IF Falsy(item)
                 THEN HTTPException(404, "Incident with ID '" \o incident_id \o "' not found")
               ELSE Ok(item)
  IN Handled(st, IF IsOk(tried) THEN tried
                 ELSE HTTPException(500, "Failed to fetch incident"))

\* delete_incident, lines 96-103: get_item and the existence check. No except
\* clause: a get_item that raises (`getRaises`) leaves the handler
delete_incident(st, incident_id, getRaises) ==
  LET response == GetItem(st, incident_id)
      item == Get(response, "Item", Null)
  IN IF getRaises THEN Handled(st, Raise("ClientError"))
     ELSE IF Falsy(item)
       THEN Handled(st, HTTPException(404, "Incident " \o incident_id \o " not found"))
     ELSE Handled(st, Continue(<<"delete_item", incident_id>>))

\* delete_incident, lines 106-107: delete_item and the return; a delete_item
\* that raises (`deleteRaises`) leaves the handler and the item stays
delete_incident_write(st, incident_id, deleteRaises) ==
  IF deleteRaises THEN Handled(st, Raise("ClientError"))
  ELSE Handled(DeleteItem(st, incident_id),
               Ok(Obj([message |-> S("Incident " \o incident_id \o " deleted successfully")])))

\* update_status, lines 113-119: get_item and the existence check
update_status(st, status_data, getRaises) ==
  LET incident_id == status_data.incident_id[2]
      response == GetItem(st, incident_id)
  IN IF getRaises THEN Handled(st, Raise("ClientError"))
     ELSE IF "Item" \notin DOMAIN response
       THEN Handled(st, HTTPException(404, "Incident with ID '" \o incident_id
                                             \o "' not found"))
     ELSE Handled(st, Continue(<<"update_item", status_data>>))

\* update_status, lines 122-129: update_item and the return
update_status_write(st, status_data, updateRaises) ==
  IF updateRaises THEN Handled(st, Raise("ClientError"))
  ELSE Handled(UpdateItem(st, status_data.incident_id[2], status_data.status[2]),
               Ok(Obj([message |-> S("Incident " \o status_data.incident_id[2]
                                       \o " status updated to " \o status_data.status[2])])))

\* create_incident: `uuid` is what uuid.uuid4() returns, `now` the clock
\* reading, `putRaises` whether table.put_item raises
create_incident(st, incident, uuid, now, putRaises) ==
  LET withId == IF Falsy(incident.incident_id)
                THEN [incident EXCEPT !.incident_id = S(uuid)] ELSE incident
      incident_dict == IF Falsy(withId.timestamp)
                       THEN [withId EXCEPT !.timestamp = S(isoformat(now))] ELSE withId
  IN IF putRaises THEN Handled(st, HTTPException(500, "Failed to create incident"))
     ELSE Handled(PutItem(st, incident_dict), Ok(Obj(incident_dict)))

(* ------------- asgi_handler: Mangum + the FastAPI routes ---------------- *)
Reply(st, code, body) == Outcome(st, code, body, 0, 0)

\* a response body this model does not look into (HTML pages, the OpenAPI
\* document, the error list of a 422)
Unmodelled == <<"unmodelled">>

\* FastAPI's answer to what a handler did: an HTTPException becomes its status
\* code and {"detail": ...}; a returned value is validated against the route's
\* response_model ("Incident" for get and create, "List[Incident]" for list,
\* "none" for delete and update) and a value that does not fit is a 500; any
\* other exception that leaves the handler is a 500 too; a handler that has a
\* table call left has no answer yet.
Respond(h, successCode, model) ==
  IF IsContinue(h.result) THEN [Reply(h.store, 0, Null) EXCEPT !.next = h.result[2]]
  ELSE IF IsHTTPException(h.result)
    THEN Reply(h.store, h.result[2], Obj([detail |-> S(h.result[3])]))
  ELSE IF ~IsOk(h.result) THEN Reply(h.store, 500, S("Internal Server Error"))
  ELSE IF model = "none" THEN Reply(h.store, successCode, h.result[2])
  ELSE IF model = "Incident"
    THEN LET v == ValidateIncident(h.result[2][2])
         IN IF IsOk(v) THEN Reply(h.store, successCode, Obj(v[2]))
            ELSE Reply(h.store, 500, S("Internal Server Error"))
  ELSE LET items == h.result[2][2]
       IN IF \A item \in items : IsOk(ValidateIncident(item[2]))
          THEN Reply(h.store, successCode,
                     <<"items", {Obj(ValidateIncident(item[2])[2]) : item \in items}>>)
          ELSE Reply(h.store, 500, S("Internal Server Error"))

\* Mangum(api_gateway_base_path=API_NAME): a path that starts with the base
\* path loses it (compared here segment by segment)
StripBasePath(p) == IF p # <<>> /\ Head(p) = API_NAME THEN Tail(p) ELSE p

\* CORSMiddleware answers a preflight itself: OPTIONS with an Origin and an
\* Access-Control-Request-Method header (every origin and method is allowed)
IsPreflight(m, headers) ==
  /\ m = S("OPTIONS")
  /\ IsObj(headers)
  /\ {"origin", "access-control-request-method"} \subseteq DOMAIN headers[2]

\* the request body as the route's model receives it: FastAPI decodes it as
\* JSON unless a Content-Type header says it is something else
JsonBody(event) ==
  LET body == Get(event, "body", Null)
      headers == Get(event, "headers", Null)
      decoded == json_loads(body)
  IN IF body = Null THEN Raise("ValidationError")
     ELSE IF /\ IsObj(headers) /\ "content-type" \in DOMAIN headers[2]
             /\ headers[2]["content-type"] # S("application/json")
       THEN Raise("ValidationError")
     ELSE IF ~IsOk(decoded) \/ ~IsObj(decoded[2]) THEN Raise("ValidationError")
     ELSE Ok(decoded[2][2])

\* a query parameter of the request, None when it is not given
QueryParam(event, name) ==
  LET q == Get(event, "queryStringParameters", Null)
  IN IF IsObj(q) THEN Get(q[2], name, Null) ELSE Null

\* The CRUD side of lambda_handler, up to and including the handler's first
\* table call. Mangum needs the method and the path to build the request
\* (without them the call raises and there is no response, statusCode 0);
\* FastAPI then matches the route, validates the JSON body against the
\* handler's model (422 when it does not fit), and answers 404 for an unknown
\* path and 405 for a known path under another method.
asgi_handler(st, event, uuid, now, putRaises, readRaises) ==
  LET m == Get(event, "httpMethod", Null)
      raw == Get(event, "path", Null)
      p == S(StripBasePath(raw[2]))
      isIncidentPath == Len(p[2]) = 3 /\ p[2][1] = "v1" /\ p[2][2] = "incidents"
      json == JsonBody(event)
      status_data == IF IsOk(json) THEN ValidateUpdateStatus(json[2]) ELSE json
      incident == IF IsOk(json) THEN ValidateIncident(json[2]) ELSE json
      NotAllowed == Reply(st, 405, Obj([detail |-> S("Method Not Allowed")]))
  IN IF m = Null \/ raw = Null THEN [Reply(st, 0, Null) EXCEPT !.raised = TRUE]
     ELSE IF IsPreflight(m, Get(event, "headers", Null)) THEN Reply(st, 200, S("OK"))
     ELSE IF p = IncidentsPath
       THEN IF m = S("GET")
            THEN Respond(list_incidents(st, QueryParam(event, "start_date"),
                                        QueryParam(event, "end_date"), readRaises),
                         200, "List[Incident]")
            ELSE NotAllowed
     ELSE IF isIncidentPath
       THEN IF m = S("GET") THEN Respond(get_incident(st, p[2][3], readRaises), 200, "Incident")
            ELSE IF m = S("DELETE") THEN Respond(delete_incident(st, p[2][3], readRaises), 200, "none")
            ELSE NotAllowed
     ELSE IF p = UpdateStatusPath
       THEN IF m # S("PUT") THEN NotAllowed
            ELSE IF ~IsOk(status_data) THEN Reply(st, 422, Unmodelled)
            ELSE Respond(update_status(st, status_data[2], readRaises), 200, "none")
     ELSE IF p = CreateIncidentPath
       THEN IF m # S("POST") THEN NotAllowed
            ELSE IF ~IsOk(incident) THEN Reply(st, 422, Unmodelled)
            ELSE Respond(create_incident(st, incident[2], uuid, now, putRaises), 201, "Incident")
     ELSE IF p \in DocsPaths
       THEN IF m \in {S("GET"), S("HEAD")} THEN Reply(st, 200, Unmodelled) ELSE NotAllowed
     ELSE Reply(st, 404, Obj([detail |-> S("Not Found")]))

\* what the invocation's collaborators do: the oracle's answer, the clock
\* reading, whether the table write (put_item, update_item, delete_item)
\* raises, whether the table read (get_item, scan) raises, and uuid4()'s value
Env(oracle, now, putRaises, readRaises, uuid) ==
  [now |-> now, oracle |-> oracle, putRaises |-> putRaises, uuid |-> uuid,
   readRaises |-> readRaises]

lambda_handler(st, event, env) ==
  IF Route(event) = "ingest"
  THEN [route |-> "ingest", out |-> Ingest(st, event, env.oracle, env.now, env.putRaises)]
  ELSE [route |-> "asgi",
        out |-> asgi_handler(st, event, env.uuid, env.now, env.putRaises, env.readRaises)]

\* the second step of update_status and delete_incident: the write that
\* `call` names, and FastAPI's answer to what the handler returns or raises
asgi_write(st, call, writeRaises) ==
  [route |-> "asgi",
   out |-> IF call[1] = "update_item"
           THEN Respond(update_status_write(st, call[2], writeRaises), 200, "none")
           ELSE Respond(delete_incident_write(st, call[2], writeRaises), 200, "none")]

(* --------------------------- inputs -------------------------------------- *)
RequestContexts ==
  {Absent, Null, Obj(EmptyDict), Obj([requestId |-> S("")])}
    \cup {Obj([requestId |-> S(id)]) : id \in Ids}

SmsBody ==
  S(<< <<"Body", "">>, <<"Body", "Fire+at+5th">>, <<"Body", "again">>,
       <<"From", "%2B15550100">>, <<"To", "">> >>)
FormBodies == {SmsBody}

Text(tokens) == <<"str", tokens>>
Member(k, v) == <<Lit(k), P(":"), Ws, v>>
\* Here you go: {}
ProseTokens == <<Word("Here"), Ws, Word("you"), Ws, Word("go"), P(":"), Ws, P("{"), P("}")>>
\* ["Fire"]
ArrayTokens == <<P("["), Lit("Fire"), P("]")>>
\*  {"incident_type": "Flood"}
FloodTokens == <<Ws, P("{")>> \o Member("incident_type", Lit("Flood")) \o <<P("}"), Ws>>
\* {"incident_location": "5th and Main", "incident_type": "Fire", "priority": "High"}
FireTokens ==
  <<P("{")>> \o Member("incident_location", Lit("5th and Main")) \o <<P(",")>>
    \o Member("incident_type", Lit("Fire")) \o <<P(",")>>
    \o Member("priority", Lit("High")) \o <<P("}")>>
\* {"incident_location": null, "priority": {"level": ["High", 1, true]}}
NestedTokens ==
  <<P("{")>> \o Member("incident_location", NullTok) \o <<P(","), Lit("priority"), P(":"),
     P("{"), Lit("level"), P(":"), P("["), Lit("High"), P(","), NumTok(1), P(","), TrueTok,
     P("]"), P("}"), P("}")>>

\* {"priority": NaN}
NanTokens == <<P("{")>> \o Member("priority", Word("NaN")) \o <<P("}")>>

\* the response body of invoke_model: {"content": [{"type": "text", "text": t}]}
Envelope(tokens) ==
  Text(<<P("{"), Lit("content"), P(":"), P("["), P("{")>> \o Member("type", Lit("text"))
         \o <<P(",")>> \o Member("text", Lit(tokens)) \o <<P("}"), P("]"), P("}")>>)
\* {"content": []}
NoContentBody == Text(<<P("{"), Lit("content"), P(":"), P("["), P("]"), P("}")>>)
\* {"content": "abc"}
StringContentBody == Text(<<P("{")>> \o Member("content", Lit(<<"a", "b", "c">>)) \o <<P("}")>>)

Oracles ==
  {Raise("ClientError"), Ok(NoContentBody), Ok(StringContentBody)}
    \cup {Ok(Envelope(t)) : t \in {ProseTokens, ArrayTokens, FloodTokens, FireTokens,
                                   NestedTokens, NanTokens}}

\* The pipeline's collaborators. What the pipeline never gets to use is fixed
\* rather than enumerated: the clock reading when the oracle's answer is no
\* JSON object, the clock reading when put_item raises. put_item raises for
\* either reason: the service fails (the Flood object), or the item holds a
\* float, which boto3's serializer refuses with TypeError (the NaN object); a
\* table that takes the float stores it as it is.
ParsesAsObject(oracle) ==
  /\ IsOk(oracle) /\ IsOk(json_loads(oracle[2]))
  /\ IsOk(ModelText(json_loads(oracle[2])[2]))
  /\ IsOk(json_loads(ModelText(json_loads(oracle[2])[2])[2]))
  /\ IsObj(json_loads(ModelText(json_loads(oracle[2])[2])[2])[2])
PipelineEnvs ==
  {Env(o, t, FALSE, FALSE, "r1") : o \in {o \in Oracles : ParsesAsObject(o)}, t \in Times}
    \cup {Env(Ok(Envelope(t)), 1, TRUE, FALSE, "r1") : t \in {FloodTokens, NanTokens}}
    \cup {Env(o, 1, FALSE, FALSE, "r1") : o \in {o \in Oracles : ~ParsesAsObject(o)}}

\* a request the pipeline turns away before it calls the oracle leaves the
\* collaborators idle
IdleEnv == Env(Raise("ClientError"), 1, FALSE, FALSE, "r1")
ReachesOracle(event) == IsOk(RequestId(event)) /\ ~HasNoRequestId(RequestId(event)[2])

NoEnv == Env(Raise("unused"), 1, FALSE, FALSE, "r1")
\* the table read of the invocation raises
ReadFails == Env(Raise("unused"), 1, FALSE, TRUE, "r1")
\* the table write of the invocation raises
WriteFails == Env(Raise("unused"), 1, TRUE, FALSE, "r1")
CallerContext == Obj([requestId |-> S("r1")])

\* the ids that update and delete requests address: r1; r2 is the record
\* that stands by, which requests create, overwrite, list and get
Targets == {"r1"}
\* {"incident_id": id, "status": "Closed"} and a body without status
UpdateBodies ==
  {Text(<<P("{")>> \o Member("incident_id", Lit(id)) \o <<P(",")>>
          \o Member("status", Lit("Closed")) \o <<P("}")>>) : id \in Targets}
    \cup {Text(<<P("{")>> \o Member("incident_id", Lit("r1")) \o <<P("}")>>)}
\* {"priority": "Low", "source": "web", "original_message": "Gas leak"}
WebReport ==
  Member("priority", Lit("Low")) \o <<P(",")>> \o Member("source", Lit("web")) \o <<P(",")>>
    \o Member("original_message", Lit("Gas leak"))
\* the report as it is, with priority repeated as null, and with an id and a
\* timestamp
CreateBodies ==
  {Text(<<P("{")>> \o WebReport \o <<P("}")>>),
   Text(<<P("{")>> \o WebReport \o <<P(",")>> \o Member("priority", NullTok) \o <<P("}")>>)}
    \cup {Text(<<P("{")>> \o WebReport \o <<P(",")>> \o Member("incident_id", Lit(id))
                 \o <<P(",")>> \o Member("timestamp", Lit(isoformat(1))) \o <<P("}")>>)
            : id \in Ids}
BodiesWithId == {b \in CreateBodies : "incident_id" \in DOMAIN json_loads(b)[2][2]}

\* neither date; ?start_date= later than every record; ?end_date= the first
\* clock reading; both
Latest == IsoStrings[Len(IsoStrings)]
Queries ==
  {Absent, Obj([start_date |-> S(Latest)]), Obj([end_date |-> S(isoformat(1))]),
   Obj([start_date |-> S(isoformat(1)), end_date |-> S(Latest)])}

PreflightHeaders ==
  Obj(("origin" :> S("https://example.org")) @@ ("access-control-request-method" :> S("PUT")))

\* requests for which the router has no handler of its own
UnroutedEvents ==
  {MkEvent(m, PostSmsPath, CallerContext, SmsBody, Absent, Absent) :
     m \in {S("GET"), Absent}}
    \cup {MkEvent(S("POST"), p, CallerContext, SmsBody, Absent, Absent) :
            p \in {Absent, S(<<"post-sms", "v1">>), S(<<API_NAME, "post-sms">>),
                   IncidentsPath}}
    \cup {MkEvent(S("GET"), S(<<"docs">>), CallerContext, Absent, Absent, Absent),
          MkEvent(S("OPTIONS"), UpdateStatusPath, CallerContext, Absent, PreflightHeaders,
                  Absent)}

(* --------------------------- the state ----------------------------------- *)
\* store: the DynamoDB table, incident_id -> item.
\* last: the step just taken: the invocation's event and collaborators,
\*       whether the step is its first ("request") or its write ("write"),
\*       where lambda_handler routed it, and the outcome so far.
\* inflight: the update/delete invocations between their get_item and their
\*       write, a bag (two invocations can be alike).
NoEvent == EmptyDict
Pending(event, call) == [event |-> event, call |-> call]
Log(event, env, step, handled) ==
  [event |-> event, env |-> env, step |-> step, route |-> handled.route,
   statusCode |-> handled.out.statusCode, body |-> handled.out.body,
   oracleCalls |-> handled.out.oracleCalls, puts |-> handled.out.puts,
   raised |-> handled.out.raised, next |-> handled.out.next]

Init ==
  /\ store = EmptyDict
  /\ last = [event |-> NoEvent, env |-> NoEnv, step |-> "none", route |-> "none",
             statusCode |-> 0, body |-> Null, oracleCalls |-> 0, puts |-> 0,
             raised |-> FALSE, next |-> Done]
  /\ inflight = EmptyBag

\* POST /post-sms
PostSms ==
  \E rc \in RequestContexts, b \in FormBodies, env \in PipelineEnvs :
    LET event == MkEvent(S("POST"), PostSmsPath, rc, b, Absent, Absent)
    IN /\ ReachesOracle(event) \/ env = IdleEnv
       /\ \E handled \in {lambda_handler(store, event, env)} :
            /\ store' = handled.out.store
            /\ last' = Log(event, env, "request", handled)
            /\ UNCHANGED inflight

\* GET /v1/incidents
ListIncidents ==
  \E q \in Queries, env \in {NoEnv, ReadFails} :
    LET event == MkEvent(S("GET"), IncidentsPath, CallerContext, Absent, Absent, q)
    IN /\ env = ReadFails => q = Absent
       /\ \E handled \in {lambda_handler(store, event, env)} :
            /\ store' = handled.out.store
            /\ last' = Log(event, env, "request", handled)
            /\ UNCHANGED inflight

\* GET /v1/incidents/{incident_id}, with and without the base path
GetIncident ==
  \E id \in Ids, env \in {NoEnv, ReadFails}, based \in BOOLEAN :
    LET path == IF based THEN S(<<API_NAME>> \o IncidentPath(id)[2]) ELSE IncidentPath(id)
        event == MkEvent(S("GET"), path, CallerContext, Absent, Absent, Absent)
    IN /\ (based \/ env = ReadFails) => id = "r1"
       /\ ~(based /\ env = ReadFails)
       /\ \E handled \in {lambda_handler(store, event, env)} :
            /\ store' = handled.out.store
            /\ last' = Log(event, env, "request", handled)
            /\ UNCHANGED inflight

\* DELETE /v1/incidents/{incident_id}, lines 96-103: the request up to its
\* get_item; it answers 404 (500 when get_item raises) or goes on to its
\* delete_item
DeleteIncident ==
  \E id \in Targets, env \in {NoEnv, ReadFails} :
    LET event == MkEvent(S("DELETE"), IncidentPath(id), CallerContext, Absent, Absent, Absent)
    IN \E handled \in {lambda_handler(store, event, env)} :
         /\ store' = handled.out.store
         /\ last' = Log(event, env, "request", handled)
         /\ IF handled.out.next = Done THEN UNCHANGED inflight
            ELSE /\ BagCardinality(inflight) < MaxInflight
                 /\ inflight' = inflight (+) SetToBag({Pending(event, handled.out.next)})

\* delete_incident, lines 106-107: the delete_item call and the answer
DeleteIncidentWrite ==
  \E r \in BagToSet(inflight), env \in {NoEnv, WriteFails} :
    /\ r.call[1] = "delete_item"
    /\ \E handled \in {asgi_write(store, r.call, env.putRaises)} :
         /\ store' = handled.out.store
         /\ last' = Log(r.event, env, "write", handled)
         /\ inflight' = inflight (-) SetToBag({r})

\* PUT /v1/update-status, lines 113-119: the request up to its get_item; it
\* answers 422 or 404 (500 when get_item raises), or goes on to its
\* update_item
UpdateStatus ==
  \E b \in UpdateBodies, env \in {NoEnv, ReadFails} :
    LET event == MkEvent(S("PUT"), UpdateStatusPath, CallerContext, b, Absent, Absent)
    IN \E handled \in {lambda_handler(store, event, env)} :
         /\ store' = handled.out.store
         /\ last' = Log(event, env, "request", handled)
         /\ IF handled.out.next = Done THEN UNCHANGED inflight
            ELSE /\ BagCardinality(inflight) < MaxInflight
                 /\ inflight' = inflight (+) SetToBag({Pending(event, handled.out.next)})

\* update_status, lines 122-129: the update_item call and the answer
UpdateStatusWrite ==
  \E r \in BagToSet(inflight), env \in {NoEnv, WriteFails} :
    /\ r.call[1] = "update_item"
    /\ \E handled \in {asgi_write(store, r.call, env.putRaises)} :
         /\ store' = handled.out.store
         /\ last' = Log(r.event, env, "write", handled)
         /\ inflight' = inflight (-) SetToBag({r})

\* POST /v1/create_incident. uuid4() returns an id not in use; a body that
\* brings its own id and timestamp reads neither uuid4() nor the clock, and
\* the clock reading of a put_item that raises is stored nowhere.
CreateIncident ==
  \E b \in CreateBodies, now \in Times, uuid \in Ids, putRaises \in BOOLEAN :
    LET event == MkEvent(S("POST"), CreateIncidentPath, CallerContext, b, Absent, Absent)
        env == Env(Raise("unused"), now, putRaises, FALSE, uuid)
    IN /\ IF b \in BodiesWithId THEN uuid = "r1" /\ now = 1 ELSE uuid \notin DOMAIN store
       /\ putRaises => now = 1
       /\ \E handled \in {lambda_handler(store, event, env)} :
            /\ store' = handled.out.store
            /\ last' = Log(event, env, "request", handled)
            /\ UNCHANGED inflight

\* any other method and path
Unrouted ==
  \E event \in UnroutedEvents :
    \E handled \in {lambda_handler(store, event, NoEnv)} :
      /\ store' = handled.out.store
      /\ last' = Log(event, NoEnv, "request", handled)
      /\ UNCHANGED inflight

Next ==
  \/ PostSms
  \/ ListIncidents
  \/ GetIncident
  \/ DeleteIncident
  \/ DeleteIncidentWrite
  \/ UpdateStatus
  \/ UpdateStatusWrite
  \/ CreateIncident
  \/ Unrouted

Spec == Init /\ [][Next]_vars

(* ======================= the claims ====================================== *)
\* what the claims read off the step just taken
Method == Get(last.event, "httpMethod", Null)
Path == Get(last.event, "path", Null)
IsSmsRequest(l) ==
  Get(l.event, "httpMethod", Null) = S("POST") /\ Get(l.event, "path", Null) = PostSmsPath

\* requestContext absent, requestId absent, or requestId empty
LacksRequestId(event) ==
  \/ "requestContext" \notin DOMAIN event
  \/ /\ IsObj(event.requestContext)
     /\ \/ "requestId" \notin DOMAIN event.requestContext[2]
        \/ event.requestContext[2].requestId = S("")

\* the request carries a request identifier r
CarriesRequestId(event, r) ==
  /\ "requestContext" \in DOMAIN event
  /\ IsObj(event.requestContext)
  /\ "requestId" \in DOMAIN event.requestContext[2]
  /\ event.requestContext[2].requestId = S(r)

\* form field `name` of a body: its first non-blank value, decoded; "" if none
FormField(body, name) ==
  LET vs == SelectSeq(body[2], LAMBDA f : f[1] = name /\ f[2] # "")
  IN IF vs = <<>> THEN S("") ELSE S(unquote_plus(vs[1][2]))

\* the ways a step after identifier extraction fails
OracleRaises(env) == ~IsOk(env.oracle)
EnvelopeLacksText(env) ==
  /\ IsOk(env.oracle) /\ IsOk(json_loads(env.oracle[2]))
  /\ ~IsOk(ModelText(json_loads(env.oracle[2])[2]))
\* the text at content[0].text of the oracle's answer, stripped
OracleText(env) == ModelText(json_loads(env.oracle[2])[2])[2]
HasText(env) ==
  /\ IsOk(env.oracle) /\ IsOk(json_loads(env.oracle[2]))
  /\ IsOk(ModelText(json_loads(env.oracle[2])[2]))
TextIsNotJson(env) == HasText(env) /\ ~IsOk(json_loads(OracleText(env)))
JsonIsNotObject(env) ==
  /\ HasText(env) /\ IsOk(json_loads(OracleText(env)))
  /\ ~IsObj(json_loads(OracleText(env))[2])
StoreWriteRaises(env) == ParsesAsObject(env.oracle) /\ env.putRaises
SomeStepFails(env) ==
  \/ OracleRaises(env) \/ EnvelopeLacksText(env) \/ TextIsNotJson(env)
  \/ JsonIsNotObject(env) \/ StoreWriteRaises(env)
\* the JSON object the oracle's text parses to
OracleObject(env) == json_loads(OracleText(env))[2][2]

\* the CRUD request of the step just taken and the incident_id it addresses
RoutedPath(l) == IF "path" \in DOMAIN l.event THEN S(StripBasePath(l.event.path[2])) ELSE Null
IsGet(l, id) == Get(l.event, "httpMethod", Null) = S("GET") /\ RoutedPath(l) = IncidentPath(id)
IsDelete(l, id) ==
  Get(l.event, "httpMethod", Null) = S("DELETE") /\ RoutedPath(l) = IncidentPath(id)
UpdateData(event) ==
  LET json == JsonBody(event) IN IF IsOk(json) THEN ValidateUpdateStatus(json[2]) ELSE json
IsUpdate(l, id) ==
  /\ Get(l.event, "httpMethod", Null) = S("PUT")
  /\ RoutedPath(l) = UpdateStatusPath
  /\ IsOk(UpdateData(l.event))
  /\ UpdateData(l.event)[2].incident_id = S(id)
GetEvent(id) == MkEvent(S("GET"), IncidentPath(id), CallerContext, Absent, Absent, Absent)
\* attribute a of an item, Absent when the item does not hold it
Attr(item, a) == Get(item, a, Absent)
OthersUntouched(id) ==
  /\ DOMAIN store' \ {id} = DOMAIN store \ {id}
  /\ \A k \in DOMAIN store \ {id} : store'[k] = store[k]

\* C1: an SMS request whose metadata carries no request identifier
\* (requestContext absent, requestId absent or empty) is answered 400 with
\* {"error": "requestId missing in event"}, the oracle is not called and the
\* store is left as it was.
C1_MissingIdRejected ==
  [][(IsSmsRequest(last') /\ LacksRequestId(last'.event))
       => /\ last'.route = "ingest"
          /\ last'.statusCode = 400
          /\ last'.body = Obj([error |-> S("requestId missing in event")])
          /\ last'.oracleCalls = 0
          /\ last'.puts = 0
          /\ ~last'.raised
          /\ store' = store]_vars

C1_Witness ==
  /\ IsSmsRequest(last)
  /\ Get(last.event, "requestContext", Absent) = Obj([requestId |-> S("")])
  /\ last.statusCode = 400
  /\ DOMAIN store = Ids

\* C2: an SMS request that carries a request identifier and has a step
\* after identifier extraction fail (oracle raises, envelope without the text,
\* text that is no JSON, JSON that is no object, put_item raises) is answered
\* 500 with {"error": "Failed to process incident", "message": cause}; no
\* exception leaves lambda_handler and the store is as it was.
C2_FailureIsUniformAndWritesNothing ==
  [][(/\ IsSmsRequest(last')
      /\ \E r \in Ids : CarriesRequestId(last'.event, r)
      /\ SomeStepFails(last'.env))
       => /\ last'.statusCode = 500
          /\ IsObj(last'.body)
          /\ DOMAIN last'.body[2] = {"error", "message"}
          /\ last'.body[2].error = S("Failed to process incident")
          /\ IsStr(last'.body[2].message)
          /\ ~last'.raised
          /\ store' = store]_vars

C2_Witness ==
  /\ IsSmsRequest(last)
  /\ CarriesRequestId(last.event, "r1")
  /\ TextIsNotJson(last.env)
  /\ last.statusCode = 500
  /\ "r1" \in DOMAIN store

\* the record the pipeline is to store for identifier r, form fields d and f,
\* oracle object o and clock reading t
ExpectedRecord(r, d, f, o, t) ==
  [incident_id |-> S(r),
   incident_location |-> IF "incident_location" \in DOMAIN o THEN o.incident_location
                                                             ELSE S("Unknown"),
   incident_type |-> IF "incident_type" \in DOMAIN o THEN o.incident_type ELSE S("General"),
   priority |-> IF "priority" \in DOMAIN o THEN o.priority ELSE S("Medium"),
   timestamp |-> S(isoformat(t)),
   status |-> S("Open"),
   source |-> f,
   original_message |-> d]

StoresExpectedRecord(r) ==
  /\ last'.statusCode = 200
  /\ r \in DOMAIN store'
  /\ store'[r] = ExpectedRecord(r, FormField(last'.event.body, "Body"),
                                FormField(last'.event.body, "From"),
                                OracleObject(last'.env), last'.env.now)
  /\ last'.body = Obj([message |-> S("Incident processed"), incident |-> Obj(store'[r])])

C4_AbsentIdIs404 ==
  [][\A id \in Ids :
       (/\ IsGet(last', id) \/ IsDelete(last', id) \/ IsUpdate(last', id)
        /\ last'.step = "request"
        /\ ~last'.env.readRaises
        /\ id \notin DOMAIN store)
         => last'.statusCode = 404]_vars

\* C5: a delete_incident whose table calls do not raise, when it answers:
\* if the id is not in the store it answers 404, has issued no delete_item
\* and leaves the store as it was; if the id is in the store it answers 200
\* and leaves exactly that key absent, every other record unchanged.
C5_DeleteAnswers ==
  [][\A id \in Ids :
       (/\ IsDelete(last', id)
        /\ last'.next = Done
        /\ ~last'.env.readRaises /\ ~last'.env.putRaises)
         => IF id \in DOMAIN store
            THEN /\ last'.statusCode = 200
                 /\ id \notin DOMAIN store'
                 /\ OthersUntouched(id)
            ELSE /\ last'.statusCode = 404
                 /\ last'.step = "request"
                 /\ store' = store]_vars

\* C6: update_status (its table calls not raising) on an id in the store
\* answers 200; get_incident for
\* that id then returns the record with the new status and every other
\* attribute as before the update; no other record changes.
C6_UpdateThenGet ==
  [][\A id \in Ids :
       (IsUpdate(last', id) /\ last'.step = "write" /\ ~last'.env.putRaises)
         => /\ last'.statusCode = 200
            /\ OthersUntouched(id)
            /\ id \in DOMAIN store
            /\ LET got == lambda_handler(store', GetEvent(id), NoEnv).out
               IN /\ got.statusCode = 200
                  /\ got.body[2].status = UpdateData(last'.event)[2].status
                  /\ \A a \in Attrs \ {"status"} : got.body[2][a] = Attr(store[id], a)]_vars

NonStatusKept(id) ==
  \A a \in Attrs \ {"status"} : Attr(store'[id], a) = Attr(store[id], a)

\* C7: for an id that stays in the store, no step of any operation changes an
\* attribute other than status, a second create_incident or pipeline run with
\* that id included.
C7_NonStatusAttributesKept ==
  [][\A id \in DOMAIN store \cap DOMAIN store' : NonStatusKept(id)]_vars

\* C8: after a pipeline run with identifier r answered 200 with record R,
\* get_incident(r) (nothing in between) answers 200 with exactly R.
C8_RoundTrip ==
  \A r \in Ids :
    (IsSmsRequest(last) /\ CarriesRequestId(last.event, r) /\ last.statusCode = 200)
      => LET got == lambda_handler(store, GetEvent(r), NoEnv).out
         IN /\ got.statusCode = 200
            /\ got.body = last.body[2].incident
            /\ got.body = Obj(store[r])

\* C9: lambda_handler runs the pipeline exactly for POST /post-sms; any
\* other request goes to the CRUD layer, and for it the router calls no
\* oracle and writes nothing itself: a request no CRUD route matches leaves
\* the store as it was.
C9_RoutesOnlyPostSms ==
  [][/\ (last'.route = "ingest") = IsSmsRequest(last')
     /\ (last'.route = "asgi") = ~IsSmsRequest(last')
     /\ ~IsSmsRequest(last') =>
          /\ last'.oracleCalls = 0
          /\ last'.puts = 0
          /\ last'.event \in UnroutedEvents => store' = store]_vars

C9_Witness ==
  /\ Method = S("GET")
  /\ Path = PostSmsPath
  /\ last.route = "asgi"
  /\ last.statusCode = 404
  /\ store # EmptyDict

\* C10: under any interleaving, every item in the store carries all eight
\* incident attributes (update_status never creates a record).
C10_EveryItemIsWhole ==
  \A id \in DOMAIN store : DOMAIN store[id] = Attrs

====
